---- MODULE Spec2Model ----
(***************************************************************************)
(* Model of gemmlowp's internal/fixedpoint_neon.h: the int32x4_t (NEON)    *)
(* backend of the fixed-point primitive operations.                        *)
(*                                                                         *)
(* An int32x4_t is a function from the lanes 1..kLanes to signed lane      *)
(* values.  Every NEON intrinsic the header calls is an operator of the    *)
(* same name, defined by the element-wise pseudocode of the instruction it *)
(* lowers to (AND, ORR, EOR, ADD, SUB, NEG, CMEQ, CMGT, CMGE, SRHADD,      *)
(* SQRDMULH, SQSHL, SRSHR, DUP, ST1).  The lane width is LaneBits; the     *)
(* instructions are parametric in the element size, and the model keeps    *)
(* the width (wraparound modulo 2^LaneBits, saturation at MinVal/MaxVal)   *)
(* at a size the model checker can enumerate.                              *)
(***************************************************************************)
EXTENDS Integers

VARIABLES a, b, c, s, Exponent, op, res, flag

vars == <<a, b, c, s, Exponent, op, res, flag>>

\* Lane width in bits (int32_t lanes, scaled down).
LaneBits == 5

\* FixedPointRawTypeTraits<int32x4_t>::kLanes
kLanes == 4

Lanes == 1..kLanes

Modulus == 2^LaneBits

MinVal == -(2^(LaneBits - 1))

MaxVal == 2^(LaneBits - 1) - 1

\* std::int32_t (ScalarRawType): the values of one lane
LaneVals == MinVal..MaxVal

\* the unsigned values of one lane (uint32x4_t lanes)
UnsignedVals == 0..(Modulus - 1)

\* the bit pattern of a signed lane value, as an unsigned number
ToUnsigned(x) == x % Modulus

\* the signed (two's-complement) reading of a bit pattern
ToSigned(u) == IF u >= 2^(LaneBits - 1) THEN u - Modulus ELSE u

\* keep the low LaneBits bits of an unbounded integer, read as signed
Wrap(v) == ToSigned(v % Modulus)

\* SignedSat: clamp an unbounded integer to the signed lane range
SignedSat(v) == IF v > MaxVal THEN MaxVal ELSE IF v < MinVal THEN MinVal ELSE v

AndTable == [x \in 0..1 |-> [y \in 0..1 |-> IF x = 1 /\ y = 1 THEN 1 ELSE 0]]

OrTable == [x \in 0..1 |-> [y \in 0..1 |-> IF x = 1 \/ y = 1 THEN 1 ELSE 0]]

EorTable == [x \in 0..1 |-> [y \in 0..1 |-> IF x # y THEN 1 ELSE 0]]

\* bit-by-bit combination of the low n bits of two bit patterns
RECURSIVE BitwiseU(_, _, _, _)
BitwiseU(tt, u, v, n) ==
  IF n = 0 THEN 0
  ELSE tt[u % 2][v % 2] + 2 * BitwiseU(tt, u \div 2, v \div 2, n - 1)

BitwiseLane(tt, x, y) == ToSigned(BitwiseU(tt, ToUnsigned(x), ToUnsigned(y), LaneBits))

(***************************************************************************)
(* The NEON intrinsics used by the header.                                 *)
(***************************************************************************)
vdupq_n_s32(x) == [i \in Lanes |-> x]

vandq_s32(x, y) == [i \in Lanes |-> BitwiseLane(AndTable, x[i], y[i])]

vorrq_s32(x, y) == [i \in Lanes |-> BitwiseLane(OrTable, x[i], y[i])]

veorq_s32(x, y) == [i \in Lanes |-> BitwiseLane(EorTable, x[i], y[i])]

vaddq_s32(x, y) == [i \in Lanes |-> Wrap(x[i] + y[i])]

vsubq_s32(x, y) == [i \in Lanes |-> Wrap(x[i] - y[i])]

vnegq_s32(x) == [i \in Lanes |-> Wrap(0 - x[i])]

\* comparisons produce a uint32x4_t: all ones or all zeros per lane
vceqq_s32(x, y) == [i \in Lanes |-> IF x[i] = y[i] THEN Modulus - 1 ELSE 0]

vcgtq_s32(x, y) == [i \in Lanes |-> IF x[i] > y[i] THEN Modulus - 1 ELSE 0]

vcgeq_s32(x, y) == [i \in Lanes |-> IF x[i] >= y[i] THEN Modulus - 1 ELSE 0]

vcltq_s32(x, y) == [i \in Lanes |-> IF x[i] < y[i] THEN Modulus - 1 ELSE 0]

vcleq_s32(x, y) == [i \in Lanes |-> IF x[i] <= y[i] THEN Modulus - 1 ELSE 0]

\* same bits, read as signed lanes
vreinterpretq_s32_u32(u) == [i \in Lanes |-> ToSigned(u[i])]

\* rounding halving add (SRHADD): (x + y + 1) >> 1 on unbounded integers
vrhaddq_s32(x, y) == [i \in Lanes |-> Wrap((x[i] + y[i] + 1) \div 2)]

\* saturating rounding doubling multiply high (SQRDMULH)
vqrdmulhq_s32(x, y) ==
  [i \in Lanes |-> SignedSat((2 * x[i] * y[i] + 2^(LaneBits - 1)) \div Modulus)]

\* saturating left shift by immediate (SQSHL)
vqshlq_n_s32(x, n) == [i \in Lanes |-> SignedSat(x[i] * 2^n)]

\* rounding right shift by immediate (SRSHR)
vrshrq_n_s32(x, n) == [i \in Lanes |-> Wrap((x[i] + 2^(n - 1)) \div 2^n)]

\* store the four lanes to an array (indexed from 1 here)
vst1q_s32(x) == [i \in Lanes |-> x[i]]

(***************************************************************************)
(* The int32x4_t specializations of fixedpoint_neon.h.                     *)
(***************************************************************************)
BitAnd(x, y) == vandq_s32(x, y)

BitOr(x, y) == vorrq_s32(x, y)

BitXor(x, y) == veorq_s32(x, y)

BitNot(x) == veorq_s32(x, vdupq_n_s32(-1))

\* as vqaddq_s32 (SQADD) would add
Add_Saturating(x, y) == [i \in Lanes |-> SignedSat(x[i] + y[i])]

Add(x, y) == vaddq_s32(x, y)

Sub(x, y) == vsubq_s32(x, y)

\* as vqnegq_s32 (SQNEG) would negate
Neg_Saturating(x) == [i \in Lanes |-> SignedSat(0 - x[i])]

Neg(x) == vnegq_s32(x)

SelectUsingMask_NoNot(if_mask, then_val, else_val) ==
  BitXor(BitAnd(if_mask, then_val), BitAnd(if_mask, else_val))

SelectUsingMask(if_mask, then_val, else_val) ==
  BitXor(BitAnd(if_mask, then_val), BitAnd(BitNot(if_mask), else_val))

MaskIfEqual(x, y) == vreinterpretq_s32_u32(vceqq_s32(x, y))

MaskIfNotEqual_Neg(x, y) == Neg(MaskIfEqual(x, y))

MaskIfNotEqual(x, y) == BitNot(MaskIfEqual(x, y))

MaskIfZero(x) == MaskIfEqual(x, vdupq_n_s32(0))

MaskIfNonZero(x) == BitNot(MaskIfZero(x))

MaskIfGreaterThan(x, y) == vreinterpretq_s32_u32(vcgtq_s32(x, y))

MaskIfGreaterThanOrEqual(x, y) == vreinterpretq_s32_u32(vcgeq_s32(x, y))

MaskIfLessThan(x, y) == vreinterpretq_s32_u32(vcltq_s32(x, y))

MaskIfLessThanOrEqual(x, y) == vreinterpretq_s32_u32(vcleq_s32(x, y))

All_ThreeLanes(x) ==
  LET arr == vst1q_s32(x) IN arr[1] # 0 /\ arr[2] # 0 /\ arr[3] # 0

All(x) ==
  LET arr == vst1q_s32(x) IN arr[1] # 0 /\ arr[2] # 0 /\ arr[3] # 0 /\ arr[4] # 0

Any(x) ==
  LET arr == vst1q_s32(x) IN arr[1] # 0 \/ arr[2] # 0 \/ arr[3] # 0 \/ arr[4] # 0

\* as vhaddq_s32 (SHADD) would halve: no rounding
RoundingHalfSum_Truncating(x, y) == [i \in Lanes |-> Wrap((x[i] + y[i]) \div 2)]

RoundingHalfSum(x, y) == vrhaddq_s32(x, y)

\* as vqdmulhq_s32 (SQDMULH) would multiply: no rounding
SaturatingRoundingDoublingHighMul_NoRounding(x, y) ==
  [i \in Lanes |-> SignedSat((2 * x[i] * y[i]) \div Modulus)]

SaturatingRoundingDoublingHighMul(x, y) == vqrdmulhq_s32(x, y)

\* as vshlq_n_s32 (SHL) would shift: no saturation
ImplPOT_Positive_Wrapping(Exp, x) == [i \in Lanes |-> Wrap(x[i] * 2^Exp)]

\* ImplSaturatingRoundingMultiplyByPOT<Exponent, int32x4_t, 1>::eval
ImplPOT_Positive(Exp, x) == vqshlq_n_s32(x, Exp)

\* as vshrq_n_s32 (SSHR) would shift: no rounding
ImplPOT_Negative_Truncating(Exp, x) == [i \in Lanes |-> Wrap(x[i] \div 2^(0 - Exp))]

\* ImplSaturatingRoundingMultiplyByPOT<Exponent, int32x4_t, -1>::eval
ImplPOT_Negative(Exp, x) == vrshrq_n_s32(x, 0 - Exp)

Dup_FirstLaneOnly(x) == [i \in Lanes |-> IF i = 1 THEN x ELSE 0]

Dup(x) == vdupq_n_s32(x)

(***************************************************************************)
(* State: the operand registers a, b, c (int32x4_t), the scalar operand s, *)
(* the template argument Exponent, the name of the last operation applied  *)
(* (op), and its result: res (int32x4_t) or flag (bool).                   *)
(***************************************************************************)
\* a vector holding x in lane k and f in the other lanes
VecOf(k, x, f) == [i \in Lanes |-> IF i = k THEN x ELSE f]

\* values of the lanes around the lane under study, for a and b
FillPairs == {<<MinVal, MinVal>>, <<MaxVal, 1>>}

\* mask operands for SelectUsingMask: a well-formed mask and a mixed pattern
SelectMasks == {<<-1, 0, -1, 0>>, <<MinVal, 5, MaxVal, -2>>}

TypeOK ==
  /\ a \in [Lanes -> LaneVals]
  /\ b \in [Lanes -> LaneVals]
  /\ c \in [Lanes -> LaneVals]
  /\ res \in [Lanes -> LaneVals]
  /\ s \in LaneVals
  /\ Exponent \in (0 - LaneBits)..(LaneBits - 1)
  /\ flag \in BOOLEAN

\* every pair of lane values, in every lane, next to boundary values
Init ==
  \E k \in Lanes, x \in LaneVals, y \in LaneVals, f \in FillPairs, m \in SelectMasks :
    /\ a = VecOf(k, x, f[1])
    /\ b = VecOf(k, y, f[2])
    /\ c = m
    /\ s = x
    /\ Exponent = 0
    /\ op = "none"
    /\ res = vdupq_n_s32(0)
    /\ flag = FALSE

\* one call of a value-returning operation on the operand registers
Apply(name, r) ==
  /\ op = "none"
  /\ op' = name
  /\ res' = r
  /\ UNCHANGED <<a, b, c, s, Exponent, flag>>

\* one call of a bool-returning operation on the operand registers
ApplyBool(name, r) ==
  /\ op = "none"
  /\ op' = name
  /\ flag' = r
  /\ UNCHANGED <<a, b, c, s, Exponent, res>>

DoBitAnd == Apply("BitAnd", BitAnd(a, b))

DoBitOr == Apply("BitOr", BitOr(a, b))

DoBitXor == Apply("BitXor", BitXor(a, b))

DoBitNot == Apply("BitNot", BitNot(a))

DoAdd == Apply("Add", Add(a, b))

DoSub == Apply("Sub", Sub(a, b))

DoNeg == Apply("Neg", Neg(a))

DoSelectUsingMask == Apply("SelectUsingMask", SelectUsingMask(c, a, b))

DoMaskIfEqual == Apply("MaskIfEqual", MaskIfEqual(a, b))

DoMaskIfNotEqual == Apply("MaskIfNotEqual", MaskIfNotEqual(a, b))

DoMaskIfZero == Apply("MaskIfZero", MaskIfZero(a))

DoMaskIfNonZero == Apply("MaskIfNonZero", MaskIfNonZero(a))

DoMaskIfGreaterThan == Apply("MaskIfGreaterThan", MaskIfGreaterThan(a, b))

DoMaskIfGreaterThanOrEqual ==
  Apply("MaskIfGreaterThanOrEqual", MaskIfGreaterThanOrEqual(a, b))

DoMaskIfLessThan == Apply("MaskIfLessThan", MaskIfLessThan(a, b))

DoMaskIfLessThanOrEqual ==
  Apply("MaskIfLessThanOrEqual", MaskIfLessThanOrEqual(a, b))

DoAll == ApplyBool("All", All(a))

DoAny == ApplyBool("Any", Any(a))

DoRoundingHalfSum == Apply("RoundingHalfSum", RoundingHalfSum(a, b))

DoSaturatingRoundingDoublingHighMul ==
  Apply("SaturatingRoundingDoublingHighMul", SaturatingRoundingDoublingHighMul(a, b))

\* SaturatingRoundingMultiplyByPOT<Exponent> with Exponent > 0; the shift
\* immediate of vqshlq_n_s32 is at most the lane width minus one
DoMultiplyByPOTPositive ==
  \E e \in 1..(LaneBits - 1) :
    /\ op = "none"
    /\ op' = "SaturatingRoundingMultiplyByPOT"
    /\ Exponent' = e
    /\ res' = ImplPOT_Positive(e, a)
    /\ UNCHANGED <<a, b, c, s, flag>>

\* SaturatingRoundingMultiplyByPOT<Exponent> with Exponent < 0; the shift
\* immediate of vrshrq_n_s32 is at most the lane width
DoMultiplyByPOTNegative ==
  \E e \in (0 - LaneBits)..(0 - 1) :
    /\ op = "none"
    /\ op' = "SaturatingRoundingMultiplyByPOT"
    /\ Exponent' = e
    /\ res' = ImplPOT_Negative(e, a)
    /\ UNCHANGED <<a, b, c, s, flag>>

DoDup == Apply("Dup", Dup(s))

Next ==
  \/ DoBitAnd
  \/ DoBitOr
  \/ DoBitXor
  \/ DoBitNot
  \/ DoAdd
  \/ DoSub
  \/ DoNeg
  \/ DoSelectUsingMask
  \/ DoMaskIfEqual
  \/ DoMaskIfNotEqual
  \/ DoMaskIfZero
  \/ DoMaskIfNonZero
  \/ DoMaskIfGreaterThan
  \/ DoMaskIfGreaterThanOrEqual
  \/ DoMaskIfLessThan
  \/ DoMaskIfLessThanOrEqual
  \/ DoAll
  \/ DoAny
  \/ DoRoundingHalfSum
  \/ DoSaturatingRoundingDoublingHighMul
  \/ DoMultiplyByPOTPositive
  \/ DoMultiplyByPOTNegative
  \/ DoDup

Spec == Init /\ [][Next]_vars

(***************************************************************************)
(* Properties of the single operations, checked under Spec.                *)
(***************************************************************************)
Abs(v) == IF v < 0 THEN 0 - v ELSE v

Min2(x, y) == IF x <= y THEN x ELSE y

Max2(x, y) == IF x >= y THEN x ELSE y

\* bit k of the two's-complement pattern of a lane value
Bit(x, k) == (ToUnsigned(x) \div 2^k) % 2

BitPositions == 0..(LaneBits - 1)

\* r is v reduced modulo 2^LaneBits into the signed range
IsWrapOf(r, v) == r \in LaneVals /\ (r - v) % Modulus = 0

\* r is the real number num / den (den > 0) rounded to a nearest integer
IsNearest(r, num, den) == 2 * Abs(r * den - num) <= den

\* r is the rounded high half of the doubled product of x and y
IsDoublingHighMul(r, x, y) ==
  IF x = MinVal /\ y = MinVal
    THEN r = MaxVal
    ELSE r \in LaneVals /\ IsNearest(r, 2 * x * y, Modulus)

\* r is the mean of x and y, rounded to nearest, ties toward plus infinity
IsHalfSum(r, x, y) ==
  /\ 2 * r - (x + y) \in {0, 1}
  /\ Min2(x, y) <= r
  /\ r <= Max2(x, y)

\* r is x * 2^e clamped to the lane range
IsSaturatingShiftLeft(r, x, e) ==
  /\ r \in LaneVals
  /\ (x * 2^e \in LaneVals => r = x * 2^e)
  /\ (x * 2^e > MaxVal => r = MaxVal)
  /\ (x * 2^e < MinVal => r = MinVal)

\* r is x / 2^e rounded to nearest
IsRoundingShiftRight(r, x, e) == r \in LaneVals /\ IsNearest(r, x, 2^e)

\* r is the mask of a relation: all ones when it holds, all zeros otherwise
IsMaskOf(r, holds) == r = (IF holds THEN 0 - 1 ELSE 0)

\* C1: each lane of SaturatingRoundingDoublingHighMul is MaxVal when both
\* inputs are MinVal, and otherwise the doubled product divided by
\* 2^LaneBits, rounded to nearest and within the lane range (no wraparound).
C1_DoublingHighMul ==
  op = "SaturatingRoundingDoublingHighMul" =>
    \A i \in Lanes : IsDoublingHighMul(res[i], a[i], b[i])

C1_Witness ==
  /\ op = "SaturatingRoundingDoublingHighMul"
  /\ \E i \in Lanes : a[i] = MinVal /\ b[i] = MinVal /\ res[i] = MaxVal
  /\ \E i \in Lanes : a[i] = MinVal /\ b[i] = MaxVal /\ res[i] = 0 - MaxVal

\* C2: each lane of RoundingHalfSum is (a+b)/2 computed without overflow,
\* rounded to nearest with ties toward plus infinity, and lies between
\* min(a,b) and max(a,b).
C2_RoundingHalfSum ==
  op = "RoundingHalfSum" => \A i \in Lanes : IsHalfSum(res[i], a[i], b[i])

C2_Witness ==
  /\ op = "RoundingHalfSum"
  /\ \E i \in Lanes : a[i] = MaxVal /\ b[i] = MaxVal /\ res[i] = MaxVal
  /\ \E i \in Lanes : a[i] = MinVal /\ b[i] = MinVal /\ res[i] = MinVal

\* C3: for Exponent > 0 each lane of SaturatingRoundingMultiplyByPOT is
\* x * 2^Exponent clamped to the lane range; for Exponent < 0 it is
\* x / 2^(-Exponent) rounded to nearest.
C3_MultiplyByPOT ==
  op = "SaturatingRoundingMultiplyByPOT" =>
    \A i \in Lanes :
      /\ Exponent > 0 => IsSaturatingShiftLeft(res[i], a[i], Exponent)
      /\ Exponent < 0 => IsRoundingShiftRight(res[i], a[i], 0 - Exponent)

\* a left shift that saturates upward in one lane and downward in another
C3_Witness ==
  /\ op = "SaturatingRoundingMultiplyByPOT"
  /\ Exponent = 2
  /\ \E i \in Lanes : a[i] = MaxVal /\ res[i] = MaxVal
  /\ \E i \in Lanes : a[i] = MinVal /\ res[i] = MinVal

\* a right shift that rounds up where truncation would round down
C3_WitnessRight ==
  /\ op = "SaturatingRoundingMultiplyByPOT"
  /\ Exponent = 0 - 1
  /\ \E i \in Lanes : a[i] = 3 /\ res[i] = 2

CompareOps ==
  {"MaskIfEqual", "MaskIfNotEqual", "MaskIfZero", "MaskIfNonZero",
   "MaskIfGreaterThan", "MaskIfGreaterThanOrEqual",
   "MaskIfLessThan", "MaskIfLessThanOrEqual"}

\* the signed relation a comparison operation decides on lane values x, y
Relation(name, x, y) ==
  CASE name = "MaskIfEqual" -> x = y
    [] name = "MaskIfNotEqual" -> x # y
    [] name = "MaskIfZero" -> x = 0
    [] name = "MaskIfNonZero" -> x # 0
    [] name = "MaskIfGreaterThan" -> x > y
    [] name = "MaskIfGreaterThanOrEqual" -> x >= y
    [] name = "MaskIfLessThan" -> x < y
    [] name = "MaskIfLessThanOrEqual" -> x <= y

\* C5: every lane of the result of a comparison operation has all bits set
\* exactly when the signed relation holds on that lane, and all bits clear
\* otherwise.
C5_MaskWellFormed ==
  op \in CompareOps =>
    \A i \in Lanes :
      /\ \A k \in BitPositions :
           Bit(res[i], k) = (IF Relation(op, a[i], b[i]) THEN 1 ELSE 0)
      /\ res[i] \in {0 - 1, 0}

C5_Witness ==
  /\ op = "MaskIfNotEqual"
  /\ \E i \in Lanes : a[i] # b[i] /\ res[i] = 0 - 1
  /\ \E i \in Lanes : a[i] = b[i] /\ res[i] = 0

C5_WitnessNonZero ==
  /\ op = "MaskIfNonZero"
  /\ \E i \in Lanes : a[i] = 0 /\ res[i] = 0
  /\ \E i \in Lanes : a[i] # 0 /\ res[i] = 0 - 1

\* C10: Add, Sub and Neg wrap around modulo 2^LaneBits instead of
\* saturating: Add(MaxVal, 1) = MinVal and Neg(MinVal) = MinVal.
C10_WrapAround ==
  \A i \in Lanes :
    /\ op = "Add" => /\ IsWrapOf(res[i], a[i] + b[i])
                     /\ (a[i] = MaxVal /\ b[i] = 1 => res[i] = MinVal)
    /\ op = "Sub" => IsWrapOf(res[i], a[i] - b[i])
    /\ op = "Neg" => /\ IsWrapOf(res[i], 0 - a[i])
                     /\ (a[i] = MinVal => res[i] = MinVal)

C10_Witness ==
  /\ op = "Add"
  /\ \E i \in Lanes : a[i] = MaxVal /\ b[i] = 1 /\ res[i] = MinVal

C10_WitnessNeg ==
  /\ op = "Neg"
  /\ \E i \in Lanes : a[i] = MinVal /\ res[i] = MinVal

\* the scalar contract of each value-returning operation: whether r is the
\* result for the lane values x, y (operands), m (mask) and exponent e
ScalarContract(name, r, x, y, m, e) ==
  CASE name = "BitAnd" ->
         \A k \in BitPositions : Bit(r, k) = AndTable[Bit(x, k)][Bit(y, k)]
    [] name = "BitOr" ->
         \A k \in BitPositions : Bit(r, k) = OrTable[Bit(x, k)][Bit(y, k)]
    [] name = "BitXor" ->
         \A k \in BitPositions : Bit(r, k) = EorTable[Bit(x, k)][Bit(y, k)]
    [] name = "BitNot" ->
         \A k \in BitPositions : Bit(r, k) = 1 - Bit(x, k)
    [] name = "Add" -> IsWrapOf(r, x + y)
    [] name = "Sub" -> IsWrapOf(r, x - y)
    [] name = "Neg" -> IsWrapOf(r, 0 - x)
    [] name = "SelectUsingMask" ->
         \A k \in BitPositions :
           Bit(r, k) = (IF Bit(m, k) = 1 THEN Bit(x, k) ELSE Bit(y, k))
    [] name \in CompareOps -> IsMaskOf(r, Relation(name, x, y))
    [] name = "RoundingHalfSum" -> IsHalfSum(r, x, y)
    [] name = "SaturatingRoundingDoublingHighMul" -> IsDoublingHighMul(r, x, y)
    [] name = "SaturatingRoundingMultiplyByPOT" ->
         IF e > 0 THEN IsSaturatingShiftLeft(r, x, e)
                  ELSE IsRoundingShiftRight(r, x, 0 - e)

ValueOps ==
  {"BitAnd", "BitOr", "BitXor", "BitNot", "Add", "Sub", "Neg", "SelectUsingMask",
   "RoundingHalfSum", "SaturatingRoundingDoublingHighMul",
   "SaturatingRoundingMultiplyByPOT"} \cup CompareOps

\* C7: for every value-returning operation, lane i of the result satisfies
\* the scalar contract of the operation on lane i of the inputs alone, for
\* each of the 4 lanes; it does not depend on the other lanes.
C7_LaneWise ==
  op \in ValueOps =>
    /\ res \in [Lanes -> LaneVals]
    /\ \A i \in Lanes : ScalarContract(op, res[i], a[i], b[i], c[i], Exponent)

\* an addition that overflows in one lane next to lanes that do not
C7_Witness ==
  /\ op = "Add"
  /\ \E i \in Lanes : a[i] + b[i] > MaxVal /\ res[i] = a[i] + b[i] - Modulus
  /\ \E i \in Lanes : a[i] + b[i] \in LaneVals /\ res[i] = a[i] + b[i]

(***************************************************************************)
(* SelectUsingMask on every triple of lane values (SpecSelect).            *)
(***************************************************************************)
\* lanes 1..3 see every (mask, then, else) triple; lane 4 selects 0 or -1
InitSelect ==
  \E x \in LaneVals, y \in LaneVals, z \in LaneVals :
    /\ c = <<z, x, y, z>>
    /\ a = <<x, y, z, 0>>
    /\ b = <<y, z, x, 0 - 1>>
    /\ s = 0
    /\ Exponent = 0
    /\ op = "none"
    /\ res = vdupq_n_s32(0)
    /\ flag = FALSE

NextSelect == DoSelectUsingMask

SpecSelect == InitSelect /\ [][NextSelect]_vars

\* C4: SelectUsingMask(mask, then, else) equals (mask & then) | (~mask & else)
\* bit for bit, for every triple; a lane whose mask is all ones gets the
\* lane of then_val, a lane whose mask is all zeros the lane of else_val.
C4_SelectTruthTable ==
  op = "SelectUsingMask" =>
    /\ res = BitOr(BitAnd(c, a), BitAnd(BitNot(c), b))
    /\ \A i \in Lanes :
         /\ c[i] = 0 - 1 => res[i] = a[i]
         /\ c[i] = 0 => res[i] = b[i]

\* a mixed mask lane next to an all-ones lane and an all-zeros lane
C4_Witness ==
  /\ op = "SelectUsingMask"
  /\ c = <<5, 0 - 1, 0, 5>>
  /\ a = <<0 - 1, 0, 5, 0>>
  /\ b = <<0, 5, 0 - 1, 0 - 1>>
  /\ res = <<5, 0, 0 - 1, 0 - 6>>

(***************************************************************************)
(* All / Any on the masks that comparisons produce (SpecMask).             *)
(***************************************************************************)
\* lane values of the compared vectors
MaskInputVals == {0 - 1, 0, 1}

InitMask ==
  /\ a \in [Lanes -> MaskInputVals]
  /\ b \in [Lanes -> MaskInputVals]
  /\ c = vdupq_n_s32(0)
  /\ s = 0
  /\ Exponent = 0
  /\ op = "none"
  /\ res = vdupq_n_s32(0)
  /\ flag = FALSE

\* All applied to the mask a comparison returned
ReduceAll ==
  /\ op \in CompareOps
  /\ op' = "All"
  /\ flag' = All(res)
  /\ UNCHANGED <<a, b, c, s, Exponent, res>>

\* Any applied to the mask a comparison returned
ReduceAny ==
  /\ op \in CompareOps
  /\ op' = "Any"
  /\ flag' = Any(res)
  /\ UNCHANGED <<a, b, c, s, Exponent, res>>

NextMask ==
  \/ DoMaskIfEqual
  \/ DoMaskIfGreaterThan
  \/ DoMaskIfNonZero
  \/ ReduceAll
  \/ ReduceAny

SpecMask == InitMask /\ [][NextMask]_vars

\* C6: on a mask vector, All is true exactly when every lane is all ones,
\* Any exactly when at least one lane is; both are false on the all-zero
\* mask; All implies Any, and All(m) = ~Any(BitNot(m)).
C6_AllAny ==
  /\ op = "All" =>
       /\ flag = (\A i \in Lanes : res[i] = 0 - 1)
       /\ (res = vdupq_n_s32(0) => ~flag)
       /\ (flag => Any(res))
       /\ flag = ~Any(BitNot(res))
  /\ op = "Any" =>
       /\ flag = (\E i \in Lanes : res[i] = 0 - 1)
       /\ (res = vdupq_n_s32(0) => ~flag)
       /\ (All(res) => flag)

\* three true lanes and one false lane: Any but not All
C6_Witness ==
  /\ op = "All"
  /\ res = <<0 - 1, 0 - 1, 0 - 1, 0>>
  /\ flag = FALSE

(***************************************************************************)
(* Dup, then MaskIfEqual, then SelectUsingMask (SpecDupSelect).            *)
(***************************************************************************)
\* lane values of the compared vector
DupLaneVals == {3, 5, 9, MinVal, 0 - 1}

InitDupSelect ==
  /\ s \in LaneVals
  /\ b \in [Lanes -> DupLaneVals]
  /\ a = vdupq_n_s32(0)
  /\ c = vdupq_n_s32(0)
  /\ Exponent = 0
  /\ op = "none"
  /\ res = vdupq_n_s32(0)
  /\ flag = FALSE

\* a := Dup(s)
StageDup ==
  /\ op = "none"
  /\ op' = "Dup"
  /\ a' = Dup(s)
  /\ UNCHANGED <<b, c, s, Exponent, res, flag>>

\* c := MaskIfEqual(a, b)
StageMaskIfEqual ==
  /\ op = "Dup"
  /\ op' = "MaskIfEqual"
  /\ c' = MaskIfEqual(a, b)
  /\ UNCHANGED <<a, b, s, Exponent, res, flag>>

\* res := SelectUsingMask(c, {1,1,1,1}, {0,0,0,0})
StageSelect ==
  /\ op = "MaskIfEqual"
  /\ op' = "SelectUsingMask"
  /\ res' = SelectUsingMask(c, Dup(1), Dup(0))
  /\ UNCHANGED <<a, b, c, s, Exponent, flag>>

NextDupSelect == StageDup \/ StageMaskIfEqual \/ StageSelect

SpecDupSelect == InitDupSelect /\ [][NextDupSelect]_vars

\* C8: every lane of Dup(s) is s; MaskIfEqual(Dup(s), v) has lane i all ones
\* iff v[i] = s and all zeros otherwise; selecting 1 or 0 with that mask
\* gives 1 iff v[i] = s; s = 5, v = {5,3,5,9} give {-1,0,-1,0} and {1,0,1,0}.
C8_DupCompareSelect ==
  /\ op \in {"Dup", "MaskIfEqual", "SelectUsingMask"} =>
       \A i \in Lanes : a[i] = s
  /\ op \in {"MaskIfEqual", "SelectUsingMask"} =>
       \A i \in Lanes : c[i] = (IF b[i] = s THEN 0 - 1 ELSE 0)
  /\ op = "SelectUsingMask" =>
       /\ \A i \in Lanes : res[i] = (IF b[i] = s THEN 1 ELSE 0)
       /\ (s = 5 /\ b = <<5, 3, 5, 9>> =>
             c = <<0 - 1, 0, 0 - 1, 0>> /\ res = <<1, 0, 1, 0>>)

C8_Witness ==
  /\ op = "SelectUsingMask"
  /\ s = 5
  /\ b = <<5, 3, 5, 9>>
  /\ c = <<0 - 1, 0, 0 - 1, 0>>
  /\ res = <<1, 0, 1, 0>>

(***************************************************************************)
(* SaturatingRoundingMultiplyByPOT<e> then <-e> (SpecPOT).                 *)
(***************************************************************************)
\* values of the lanes around the lane under study
POTFill == {MinVal, MaxVal, 1}

InitPOT ==
  \E k \in Lanes, x \in LaneVals, f \in POTFill :
    /\ a = VecOf(k, x, f)
    /\ b = vdupq_n_s32(0)
    /\ c = vdupq_n_s32(0)
    /\ s = 0
    /\ Exponent = 0
    /\ op = "none"
    /\ res = vdupq_n_s32(0)
    /\ flag = FALSE

\* c := SaturatingRoundingMultiplyByPOT<e>(a), e > 0
StagePOTLeft ==
  \E e \in 1..(LaneBits - 1) :
    /\ op = "none"
    /\ op' = "POTLeft"
    /\ Exponent' = e
    /\ c' = ImplPOT_Positive(e, a)
    /\ UNCHANGED <<a, b, s, res, flag>>

\* res := SaturatingRoundingMultiplyByPOT<-e>(c), the same magnitude e
StagePOTRight ==
  /\ op = "POTLeft"
  /\ op' = "POTRoundTrip"
  /\ res' = ImplPOT_Negative(0 - Exponent, c)
  /\ UNCHANGED <<a, b, c, s, Exponent, flag>>

NextPOT == StagePOTLeft \/ StagePOTRight

SpecPOT == InitPOT /\ [][NextPOT]_vars

\* C9: shifting left by e and then right by e gives a value within 1 of x
\* when x * 2^e is representable; when the left shift saturates, it gives
\* the saturation bound divided by 2^e and rounded once: 2^(LaneBits-1-e)
\* from MaxVal, -2^(LaneBits-1-e) from MinVal.
C9_RoundTrip ==
  op = "POTRoundTrip" =>
    \A i \in Lanes :
      LET x == a[i]
          e == Exponent
      IN /\ x * 2^e \in LaneVals => Abs(res[i] - x) <= 1
         /\ x * 2^e > MaxVal =>
              /\ c[i] = MaxVal
              /\ res[i] = 2^(LaneBits - 1 - e)
              /\ IsRoundingShiftRight(res[i], MaxVal, e)
         /\ x * 2^e < MinVal =>
              /\ c[i] = MinVal
              /\ res[i] = 0 - 2^(LaneBits - 1 - e)
              /\ IsRoundingShiftRight(res[i], MinVal, e)

\* one lane round-trips exactly while another saturates
C9_Witness ==
  /\ op = "POTRoundTrip"
  /\ Exponent = 2
  /\ \E i \in Lanes : a[i] = 3 /\ c[i] = 12 /\ res[i] = 3
  /\ \E i \in Lanes : a[i] = MaxVal /\ c[i] = MaxVal /\ res[i] = 2^(LaneBits - 3)

====
